---- MODULE Spec2Model ----
(***************************************************************************)
(* Model of the OpenMP parallel algorithms library                         *)
(* (src/src/parallel_algorithms.c): parallel_reduce, parallel_transform    *)
(* and parallel_sort with its task tree (mergesort_parallel,               *)
(* mergesort_serial, merge).                                               *)
(*                                                                         *)
(* Arrays are functions over 0..size-1, as in C.  The double values are    *)
(* modelled by integers (exact arithmetic, no NaN) and by a negative zero, *)
(* a value distinct from 0 that the comparisons of C take as equal to 0.   *)
(***************************************************************************)
EXTENDS Integers, Sequences, FiniteSets, TLC

(***************************************************************************)
(* Bounds of the model.                                                    *)
(***************************************************************************)
MaxLen == 3
MaxVal == 2
MaxThreads == 2
MaxIter == 4
MaxChunk == 2
MaxFiles == 2

(***************************************************************************)
(* Program constants.                                                      *)
(***************************************************************************)
CUTOFF == 1000

Uninit == -1

Values == 0..MaxVal

\* -0.0: a double that is not 0.0 and that ==, <= and >= take as equal to it.
NegZero == 0 - 2

\* The place of a double in the order of <, <=: arr[i] <= arr[j] in C is
\* Key(arr[i]) <= Key(arr[j]) here.
Key(x) == IF x = NegZero THEN 0 ELSE x

\* The values of the short arrays given to parallel_sort.
SortValues == Values \cup {NegZero}

VARIABLES
  \* ---- parallel_sort ----
  spc,        \* position of the thread that called parallel_sort
  input,      \* the caller's array when parallel_sort was called
  arr,        \* the array being sorted
  size,       \* its length
  temp,       \* the auxiliary buffer
  tempSt,     \* "none" | "allocated" | "null" | "freed"
  nthreads,   \* omp_get_max_threads()
  max_depth,  \* depth budget of the root task
  team,       \* number of threads of the parallel region
  task,       \* the sort tasks created so far, by path from the root
  \* ---- parallel_reduce (with arr, size, nthreads, team) ----
  rpc,        \* position of the thread that called parallel_reduce
  op,         \* operator code
  initial,    \* the caller's initial value
  result,     \* the variable result of parallel_reduce
  priv,       \* each thread's private copy of result
  joined,     \* threads whose private copy has been combined into result
  todo,       \* loop iterations not executed yet
  retval,     \* the value returned to the caller
  \* ---- parallel_transform (with size, nthreads, team, todo) ----
  tpc,        \* position of the thread that called parallel_transform
  in,         \* input array
  out,        \* output array
  func,       \* the function applied, a map over the values
  alias,      \* TRUE when the caller passed the same array as in and as out
  in0,        \* the content of the input array when the call was made
  writes,     \* how many times each slot of out has been written
  \* ---- the scheduled loops of scheduling_comparison.c (with arr, size, team) ----
  lpc,        \* position of the thread that runs main
  sched,      \* "static" | "dynamic" | "guided"
  chunk,      \* the chunk size of the schedule clause
  next,       \* first iteration not handed out yet (dynamic, guided)
  round,      \* number of chunks each thread has taken (static)
  cur,        \* each thread's chunk: lo is its next iteration, hi its end
  execs,      \* how many times the body has run for each index
  psum,       \* each thread's private copy of the sum
  sum,        \* sum_static, sum_dynamic or sum_guided
  arrived,    \* threads that have reached the barrier ending the loop
  \* ---- the file pipeline of task_dependencies.c and task_benchmark.c (with nthreads, team) ----
  ppc,        \* position of the thread that creates the file tasks
  impl,       \* which process_file function the file tasks call
  nfiles,     \* number of files
  created,    \* number of file tasks created so far
  fpc,        \* position of each call of process_file
  made,       \* number of stage tasks each call has created
  stg,        \* state of each stage of each file
  frame,      \* the local variables of each call of process_file
  cap,        \* the private copies of these variables held by each stage task
  seen,       \* data_size and parsed_data as the process stage found them
  reported,   \* the item count and the sum written to the report
  heap,       \* the allocated blocks and their content
  \* ---- main of data_sharing_clauses.c (with team) ----
  dpc,              \* position of the thread that runs main
  shared_var,       \* the original variables of main
  private_result,
  firstprivate_var,
  lastprivate_var,
  reduction_sum,
  at,               \* position of each thread of the team
  owner,            \* thread inside the critical section, 0 when none
  reg,              \* the value of shared_var each thread has loaded
  p_private,        \* each thread's copy of private_result
  p_first,          \* each thread's copy of firstprivate_var
  p_last,           \* each thread's copy of lastprivate_var
  p_sum             \* each thread's copy of reduction_sum

sortVars == <<spc, input, temp, tempSt, max_depth, task>>

reduceVars == <<rpc, op, initial, result, priv, joined, retval>>

transformVars == <<tpc, in, out, func, alias, in0, writes>>

loopVars == <<lpc, sched, chunk, next, round, cur, execs, psum, sum, arrived>>

pipeVars == <<ppc, impl, nfiles, created, fpc, made, stg, frame, cap, seen, reported, heap>>

shareVars == <<dpc, shared_var, private_result, firstprivate_var, lastprivate_var,
               reduction_sum, at, owner, reg, p_private, p_first, p_last, p_sum>>

vars == <<arr, size, nthreads, team, todo, sortVars, reduceVars, transformVars, loopVars, pipeVars, shareVars>>

(***************************************************************************)
(* Helpers on arrays.                                                      *)
(***************************************************************************)
ArrayOf(n, S) == [0..(n - 1) -> S]

\* A long input array with repeated values: 3, 6, 2, 5, 1, 4, 0, 3, 6, ...
BigArray(n) == [i \in 0..(n - 1) |-> (3 * (i + 1)) % 7]

\* Lengths around the cutoff: the largest range that stays sequential and
\* the smallest that forks twice.
BigLens == {CUTOFF + 1, 2 * (CUTOFF + 2)}

\* A long array of zeros of both signs, of the smallest length that forks:
\* it is non-decreasing, and every comparison of a merge on it is a tie.
ZeroArray(n) == [i \in 0..(n - 1) |-> IF i % 3 = 1 THEN NegZero ELSE 0]

SortInputs ==
  (UNION {ArrayOf(n, SortValues) : n \in 0..MaxLen})
    \cup {BigArray(n) : n \in BigLens}
    \cup {ZeroArray(CUTOFF + 2)}

\* The element of a one-element set.  Binding a value as the element of a
\* set ({F(x) : x \in {e}}) has e computed before F uses it, in the order
\* of the C statements.
TheOne(S) == CHOOSE x \in S : TRUE

(***************************************************************************)
(* merge (parallel_algorithms.c:67-87).                                    *)
(* A merge state is the loop variables i, j, k with the buffer and the     *)
(* indexes of arr and temp accessed so far.                                *)
(***************************************************************************)
\* The indexes an operation accesses are recorded as the interval lo..hi
\* that holds them all; hi < lo when nothing has been accessed.
NoAccess == [lo |-> 0, hi |-> 0 - 1]

Touch(f, x) ==
  IF f.hi < f.lo THEN [lo |-> x, hi |-> x]
  ELSE [lo |-> IF x < f.lo THEN x ELSE f.lo, hi |-> IF x > f.hi THEN x ELSE f.hi]

Both(f, g) ==
  IF f.hi < f.lo THEN g
  ELSE IF g.hi < g.lo THEN f
  ELSE Touch(Touch(f, g.lo), g.hi)

\* One iteration of whichever of the three while loops of lines 72-83 is
\* running; a is the array, s the loop variables i, j, k with the buffer.
TakeLeft(a, s, read) ==
  [temp |-> [s.temp EXCEPT ![s.k] = a[s.i]], i |-> s.i + 1, j |-> s.j, k |-> s.k + 1,
   ia |-> read, it |-> Touch(s.it, s.k)]

TakeRight(a, s, read) ==
  [temp |-> [s.temp EXCEPT ![s.k] = a[s.j]], i |-> s.i, j |-> s.j + 1, k |-> s.k + 1,
   ia |-> read, it |-> Touch(s.it, s.k)]

\* Mutant of MergeStep: the comparison of line 73 reversed.
MergeStepReversed(a, s, mid, right) ==
  IF s.i <= mid /\ s.j <= right
  THEN IF Key(a[s.i]) >= Key(a[s.j])
       THEN TakeLeft(a, s, Touch(Touch(s.ia, s.i), s.j))
       ELSE TakeRight(a, s, Touch(Touch(s.ia, s.i), s.j))
  ELSE IF s.i <= mid THEN TakeLeft(a, s, Touch(s.ia, s.i))
  ELSE IF s.j <= right THEN TakeRight(a, s, Touch(s.ia, s.j))
  ELSE s

\* Mutant of MergeStep: the comparison of line 73 is < instead of <=.
MergeStepStrict(a, s, mid, right) ==
  IF s.i <= mid /\ s.j <= right
  THEN IF Key(a[s.i]) < Key(a[s.j])
       THEN TakeLeft(a, s, Touch(Touch(s.ia, s.i), s.j))
       ELSE TakeRight(a, s, Touch(Touch(s.ia, s.i), s.j))
  ELSE IF s.i <= mid THEN TakeLeft(a, s, Touch(s.ia, s.i))
  ELSE IF s.j <= right THEN TakeRight(a, s, Touch(s.ia, s.j))
  ELSE s

MergeStep(a, s, mid, right) ==
  IF s.i <= mid /\ s.j <= right
  THEN IF Key(a[s.i]) <= Key(a[s.j])
       THEN TakeLeft(a, s, Touch(Touch(s.ia, s.i), s.j))
       ELSE TakeRight(a, s, Touch(Touch(s.ia, s.i), s.j))
  ELSE IF s.i <= mid THEN TakeLeft(a, s, Touch(s.ia, s.i))
  ELSE IF s.j <= right THEN TakeRight(a, s, Touch(s.ia, s.j))
  ELSE s

\* n iterations of the while loops: the first n \div 2 of them give the state
\* h, the others continue from h (the split keeps the evaluation shallow).
\* The loops stop by themselves once i > mid and j > right.
RECURSIVE MergeLoops(_, _, _, _, _)
MergeLoops(a, s, mid, right, n) ==
  IF n <= 0 THEN s
  ELSE IF n = 1 THEN MergeStep(a, s, mid, right)
  ELSE TheOne({MergeLoops(a, h, mid, right, n - (n \div 2)) :
                 h \in {MergeLoops(a, s, mid, right, n \div 2)}})

\* Mutant of CopyStep: every element is copied from temp[right].
CopyStepLast(t, c, right) ==
  IF c.i <= right
  THEN [arr |-> [c.arr EXCEPT ![c.i] = t[right]], i |-> c.i + 1,
        ia |-> Touch(c.ia, c.i), it |-> Touch(c.it, c.i)]
  ELSE c

\* One iteration of the copy loop of lines 85-86; c holds the array, the
\* loop variable i and the indexes accessed.
CopyStep(t, c, right) ==
  IF c.i <= right
  THEN [arr |-> [c.arr EXCEPT ![c.i] = t[c.i]], i |-> c.i + 1,
        ia |-> Touch(c.ia, c.i), it |-> Touch(c.it, c.i)]
  ELSE c

RECURSIVE CopyLoop(_, _, _, _)
CopyLoop(t, c, right, n) ==
  IF n <= 0 THEN c
  ELSE IF n = 1 THEN CopyStep(t, c, right)
  ELSE TheOne({CopyLoop(t, h, right, n - (n \div 2)) :
                 h \in {CopyLoop(t, c, right, n \div 2)}})

\* What merge leaves behind: the array and the indexes accessed come from the
\* copy loop's final state c, the buffer from the while loops' final state s.
MergeResult(s, c) == [arr |-> c.arr, temp |-> s.temp, ia |-> c.ia, it |-> c.it]

MergeInto(a, s, left, right) ==
  TheOne({MergeResult(s, c) :
            c \in {CopyLoop(s.temp, [arr |-> a, i |-> left, ia |-> s.ia, it |-> s.it],
                            right, right - left + 1)}})

merge(a, t, left, mid, right) ==
  TheOne({MergeInto(a, s, left, right) :
            s \in {MergeLoops(a, [temp |-> t, i |-> left, j |-> mid + 1, k |-> left,
                                  ia |-> NoAccess, it |-> NoAccess],
                              mid, right, right - left + 1)}})

(***************************************************************************)
(* mergesort_serial (parallel_algorithms.c:89-96).                         *)
(***************************************************************************)
\* What mergesort_serial leaves behind after the sorts l and r of the two
\* halves and the merge m.
SerialResult(l, r, m) ==
  [arr |-> m.arr, temp |-> m.temp,
   ia |-> Both(Both(l.ia, r.ia), m.ia),
   it |-> Both(Both(l.it, r.it), m.it)]

RECURSIVE mergesort_serial(_, _, _, _)
mergesort_serial(a, t, left, right) ==
  IF left < right
  THEN LET mid == left + ((right - left) \div 2)
       IN TheOne(UNION {UNION {{SerialResult(l, r, m) :
                           m \in {merge(r.arr, r.temp, left, mid, right)}} :
                           r \in {mergesort_serial(l.arr, l.temp, mid + 1, right)}} :
                           l \in {mergesort_serial(a, t, left, mid)}})
  ELSE [arr |-> a, temp |-> t, ia |-> NoAccess, it |-> NoAccess]

(***************************************************************************)
(* Sort tasks.  A task is named by its path from the root (0 = first       *)
(* child, 1 = second child) and carries its arguments, its state and the   *)
(* indexes of arr (ia) and temp (it) that its own code has accessed.       *)
(***************************************************************************)
NewTask(left, right, depth) ==
  [left |-> left, right |-> right, depth |-> depth, st |-> "Created", ia |-> NoAccess, it |-> NoAccess]

Root == << >>

\* Mutant of Sequential: the depth budget is not tested.
SequentialSizeOnly(left, right, depth) == (right - left) <= CUTOFF

\* Mutant of Sequential: the size test is strict.
SequentialBelowCutoff(left, right, depth) == depth <= 0 \/ (right - left) < CUTOFF

\* parallel_algorithms.c:99, the test that selects the serial algorithm.
Sequential(left, right, depth) == depth <= 0 \/ (right - left) <= CUTOFF

\* parallel_algorithms.c:106
Mid(left, right) == left + ((right - left) \div 2)

\* Mutant of FirstChild: the first half stops before mid.
FirstChildShort(left, right, depth) == NewTask(left, Mid(left, right) - 1, depth - 1)

\* parallel_algorithms.c:108-112, the two tasks a task creates.
FirstChild(left, right, depth) == NewTask(left, Mid(left, right), depth - 1)

\* Mutant of SecondChild: the second half starts at mid instead of mid + 1.
SecondChildFromMid(left, right, depth) == NewTask(Mid(left, right), right, depth - 1)

\* Mutant of SecondChild: the second task inherits the whole depth budget.
SecondChildSameDepth(left, right, depth) == NewTask(Mid(left, right) + 1, right, depth)

SecondChild(left, right, depth) == NewTask(Mid(left, right) + 1, right, depth - 1)

HasChildren(t) == Append(t, 0) \in DOMAIN task

\* Mutant of ChildrenDone: the wait covers the first child only.
ChildrenDoneFirstOnly(t) == task[Append(t, 0)].st = "Done"

\* parallel_algorithms.c:114, taskwait: every child task has completed.
ChildrenDone(t) ==
  /\ task[Append(t, 0)].st = "Done"
  /\ task[Append(t, 1)].st = "Done"

\* Tasks that hold a thread of the team.
Running == {t \in DOMAIN task : task[t].st \in {"Sequential", "Joined", "Merged"}}

ThreadFree == spc = "region" /\ Cardinality(Running) < team

(***************************************************************************)
(* parallel_sort (parallel_algorithms.c:119-134).                          *)
(***************************************************************************)
\* Mutant of Malloc: the NULL test of line 121 is missing.
MallocUnchecked ==
  /\ spc = "entry"
  /\ \E ok \in BOOLEAN :
       IF ok
       THEN /\ temp' = [i \in 0..(size - 1) |-> Uninit]
            /\ tempSt' = "allocated"
       ELSE /\ temp' = << >>
            /\ tempSt' = "null"
  /\ max_depth' = nthreads
  /\ spc' = "parallel"
  /\ UNCHANGED <<input, arr, size, nthreads, team, task, todo, reduceVars, transformVars, loopVars, pipeVars, shareVars>>

\* malloc, the NULL test and omp_get_max_threads (lines 120-123).
Malloc ==
  /\ spc = "entry"
  /\ \E ok \in BOOLEAN :
       IF ok
       THEN /\ temp' = [i \in 0..(size - 1) |-> Uninit]
            /\ tempSt' = "allocated"
            /\ max_depth' = nthreads
            /\ spc' = "parallel"
       ELSE /\ tempSt' = "null"
            /\ spc' = "returned"
            /\ UNCHANGED <<temp, max_depth>>
  /\ UNCHANGED <<input, arr, size, nthreads, team, task, todo, reduceVars, transformVars, loopVars, pipeVars, shareVars>>

\* #pragma omp parallel (line 125): a team of at most nthreads threads.
Parallel ==
  /\ spc = "parallel"
  /\ team' \in 1..nthreads
  /\ spc' = "single"
  /\ UNCHANGED <<input, arr, size, temp, tempSt, nthreads, max_depth, task, todo, reduceVars, transformVars, loopVars, pipeVars, shareVars>>

\* #pragma omp single nowait (lines 127-130): one thread calls
\* mergesort_parallel(arr, temp, 0, size - 1, max_depth).
Single ==
  /\ spc = "single"
  /\ task' = (Root :> NewTask(0, size - 1, max_depth))
  /\ spc' = "region"
  /\ UNCHANGED <<input, arr, size, temp, tempSt, nthreads, max_depth, team, todo, reduceVars, transformVars, loopVars, pipeVars, shareVars>>

(***************************************************************************)
(* mergesort_parallel (parallel_algorithms.c:98-117), one task t.          *)
(***************************************************************************)
\* Lines 99-101: the task takes the serial branch.
Start(t) ==
  /\ ThreadFree
  /\ task[t].st = "Created"
  /\ Sequential(task[t].left, task[t].right, task[t].depth)
  /\ task' = [task EXCEPT ![t].st = "Sequential"]
  /\ UNCHANGED <<spc, input, arr, size, temp, tempSt, nthreads, max_depth, team, todo, reduceVars, transformVars, loopVars, pipeVars, shareVars>>

\* Mutant of SerialSort: the task returns without calling mergesort_serial.
SerialSortSkipped(t) ==
  /\ spc = "region"
  /\ task[t].st = "Sequential"
  /\ task' = [task EXCEPT ![t].st = "Done"]
  /\ UNCHANGED <<spc, input, arr, size, temp, tempSt, nthreads, max_depth, team, todo, reduceVars, transformVars, loopVars, pipeVars, shareVars>>

\* Lines 101-102: mergesort_serial runs and the task returns.
SerialSort(t) ==
  /\ spc = "region"
  /\ task[t].st = "Sequential"
  /\ \E r \in {mergesort_serial(arr, temp, task[t].left, task[t].right)} :
        /\ arr' = r.arr
        /\ temp' = r.temp
        /\ task' = [task EXCEPT ![t].st = "Done", ![t].ia = r.ia, ![t].it = r.it]
  /\ UNCHANGED <<spc, input, size, tempSt, nthreads, max_depth, team, todo, reduceVars, transformVars, loopVars, pipeVars, shareVars>>

\* Lines 105-114: the task creates its two child tasks and waits.
Fork(t) ==
  /\ ThreadFree
  /\ task[t].st = "Created"
  /\ ~Sequential(task[t].left, task[t].right, task[t].depth)
  /\ IF task[t].left < task[t].right
     THEN task' = (Append(t, 0) :> FirstChild(task[t].left, task[t].right, task[t].depth))
                    @@ (Append(t, 1) :> SecondChild(task[t].left, task[t].right, task[t].depth))
                    @@ [task EXCEPT ![t].st = "Forked"]
     ELSE task' = [task EXCEPT ![t].st = "Done"]
  /\ UNCHANGED <<spc, input, arr, size, temp, tempSt, nthreads, max_depth, team, todo, reduceVars, transformVars, loopVars, pipeVars, shareVars>>

\* Line 114: taskwait returns once both children have completed.
Join(t) ==
  /\ ThreadFree
  /\ task[t].st = "Forked"
  /\ ChildrenDone(t)
  /\ task' = [task EXCEPT ![t].st = "Joined"]
  /\ UNCHANGED <<spc, input, arr, size, temp, tempSt, nthreads, max_depth, team, todo, reduceVars, transformVars, loopVars, pipeVars, shareVars>>

\* Mutant of Merge: the merge starts at index 0 instead of the task's left.
MergeFromZero(t) ==
  /\ spc = "region"
  /\ task[t].st = "Joined"
  /\ \E m \in {merge(arr, temp, 0, Mid(task[t].left, task[t].right), task[t].right)} :
        /\ arr' = m.arr
        /\ temp' = m.temp
        /\ task' = [task EXCEPT ![t].st = "Merged", ![t].ia = m.ia, ![t].it = m.it]
  /\ UNCHANGED <<spc, input, size, tempSt, nthreads, max_depth, team, todo, reduceVars, transformVars, loopVars, pipeVars, shareVars>>

\* Line 115: merge of the two halves.
Merge(t) ==
  /\ spc = "region"
  /\ task[t].st = "Joined"
  /\ \E m \in {merge(arr, temp, task[t].left, Mid(task[t].left, task[t].right), task[t].right)} :
        /\ arr' = m.arr
        /\ temp' = m.temp
        /\ task' = [task EXCEPT ![t].st = "Merged", ![t].ia = m.ia, ![t].it = m.it]
  /\ UNCHANGED <<spc, input, size, tempSt, nthreads, max_depth, team, todo, reduceVars, transformVars, loopVars, pipeVars, shareVars>>

\* Lines 116-117: the task returns.
Return(t) ==
  /\ spc = "region"
  /\ task[t].st = "Merged"
  /\ task' = [task EXCEPT ![t].st = "Done"]
  /\ UNCHANGED <<spc, input, arr, size, temp, tempSt, nthreads, max_depth, team, todo, reduceVars, transformVars, loopVars, pipeVars, shareVars>>

\* Mutant of Barrier: the region ends without waiting for the tasks.
BarrierEarly ==
  /\ spc = "region"
  /\ spc' = "free"
  /\ UNCHANGED <<input, arr, size, temp, tempSt, nthreads, max_depth, team, task, todo, reduceVars, transformVars, loopVars, pipeVars, shareVars>>

\* Line 131: the barrier that ends the parallel region; every task is complete.
Barrier ==
  /\ spc = "region"
  /\ \A t \in DOMAIN task : task[t].st = "Done"
  /\ spc' = "free"
  /\ UNCHANGED <<input, arr, size, temp, tempSt, nthreads, max_depth, team, task, todo, reduceVars, transformVars, loopVars, pipeVars, shareVars>>

\* Mutant of Free: the array is freed instead of the buffer, its content is lost.
FreeArray ==
  /\ spc = "free"
  /\ arr' = [i \in DOMAIN arr |-> Uninit]
  /\ tempSt' = "freed"
  /\ spc' = "returned"
  /\ UNCHANGED <<input, size, temp, nthreads, max_depth, team, task, todo, reduceVars, transformVars, loopVars, pipeVars, shareVars>>

\* Mutant of Free: the buffer is freed by the calling thread with no barrier
\* before it, as soon as the tasks exist.
FreeInRegion ==
  /\ spc \in {"region", "free"}
  /\ tempSt' = "freed"
  /\ spc' = "returned"
  /\ UNCHANGED <<input, arr, size, temp, nthreads, max_depth, team, task, todo, reduceVars, transformVars, loopVars, pipeVars, shareVars>>

\* Line 133: free(temp) and return.
Free ==
  /\ spc = "free"
  /\ tempSt' = "freed"
  /\ spc' = "returned"
  /\ UNCHANGED <<input, arr, size, temp, nthreads, max_depth, team, task, todo, reduceVars, transformVars, loopVars, pipeVars, shareVars>>

\* The other two functions are not called.
ReduceIdle ==
  /\ rpc = "idle" /\ op = 0 /\ initial = 0 /\ result = 0
  /\ priv = << >> /\ joined = {} /\ retval = 0

TransformIdle ==
  /\ tpc = "idle" /\ in = << >> /\ out = << >> /\ func = << >>
  /\ alias = FALSE /\ in0 = << >> /\ writes = << >>

LoopIdle ==
  /\ lpc = "idle" /\ sched = "static" /\ chunk = 1 /\ next = 0
  /\ round = << >> /\ cur = << >> /\ execs = << >> /\ psum = << >>
  /\ sum = 0 /\ arrived = {}

PipeIdle ==
  /\ ppc = "idle" /\ impl = "sequential" /\ nfiles = 0 /\ created = 0
  /\ fpc = << >> /\ made = << >> /\ stg = << >> /\ frame = << >> /\ cap = << >>
  /\ seen = << >> /\ reported = << >> /\ heap = << >>

ShareIdle ==
  /\ dpc = "idle" /\ shared_var = 0 /\ private_result = 0 /\ firstprivate_var = 0
  /\ lastprivate_var = 0 /\ reduction_sum = 0 /\ at = << >> /\ owner = 0
  /\ reg = << >> /\ p_private = << >> /\ p_first = << >> /\ p_last = << >> /\ p_sum = << >>

SortIdle ==
  /\ spc = "idle" /\ input = << >> /\ temp = << >> /\ tempSt = "none"
  /\ max_depth = 0 /\ task = << >>

SortInit ==
  /\ spc = "entry"
  /\ input \in SortInputs
  /\ arr = input
  /\ size = Cardinality(DOMAIN input)
  /\ temp = << >>
  /\ tempSt = "none"
  /\ nthreads \in 1..MaxThreads
  /\ max_depth = 0
  /\ team = 0
  /\ task = << >>
  /\ todo = {}
  /\ ReduceIdle
  /\ TransformIdle
  /\ LoopIdle
  /\ PipeIdle
  /\ ShareIdle

SortNext ==
  \/ Malloc
  \/ Parallel
  \/ Single
  \/ \E t \in DOMAIN task : Start(t)
  \/ \E t \in DOMAIN task : SerialSort(t)
  \/ \E t \in DOMAIN task : Fork(t)
  \/ \E t \in DOMAIN task : Join(t)
  \/ \E t \in DOMAIN task : Merge(t)
  \/ \E t \in DOMAIN task : Return(t)
  \/ Barrier
  \/ Free

SortSpec == SortInit /\ [][SortNext]_vars

\* The threads of the team keep running: a step that can be taken is taken.
\* The condition is stated for the calls on short arrays.
SortFair == SortSpec /\ WF_vars(size <= MaxLen /\ SortNext)

(***************************************************************************)
(* parallel_reduce (parallel_algorithms.c:14-48).                          *)
(* reduction(op:result) gives every thread of the team a private copy of   *)
(* result that starts from the operator's identity; the loop body works on *)
(* the private copy, and at the end of the loop every private copy is      *)
(* combined into the original result, one at a time.                       *)
(***************************************************************************)
\* -INFINITY and INFINITY: below and above every value of the model.
NegInf == 0 - (MaxVal + 2)

PosInf == MaxVal + 2

\* Values of the arrays given to parallel_reduce: one negative, zero and one
\* above 1.
RedValues == {0 - 1, 0, MaxVal}

\* The operator codes of the switch (lines 18, 25, 32, 39).
ValidOps == 0..3

\* Mutant of Identity: every private copy starts from 0.
IdentityZero(o) == 0

\* The initializer of the private copies for reduction(+), (*), (max), (min).
Identity(o) ==
  CASE o = 0 -> 0
    [] o = 1 -> 1
    [] o = 2 -> NegInf
    [] o = 3 -> PosInf

\* The loop bodies (lines 21, 28, 35, 42) on the accumulator acc.
Body(o, acc, x) ==
  CASE o = 0 -> acc + x
    [] o = 1 -> acc * x
    [] o = 2 -> IF x > acc THEN x ELSE acc
    [] o = 3 -> IF x < acc THEN x ELSE acc

\* Mutant of Combiner: the private copy overwrites result.
CombinerOverwrite(o, a, b) == b

\* The combiner of the reduction clause: original = original op private.
Combiner(o, a, b) ==
  CASE o = 0 -> a + b
    [] o = 1 -> a * b
    [] o = 2 -> IF b > a THEN b ELSE a
    [] o = 3 -> IF b < a THEN b ELSE a

\* Mutant of ReduceEnter: every private copy starts from the caller's initial
\* value instead of the operator's identity.
ReduceEnterSeeded ==
  /\ rpc = "entry"
  /\ result' = initial
  /\ IF op \in ValidOps
     THEN /\ team' \in 1..nthreads
          /\ priv' = [w \in 1..team' |-> initial]
          /\ todo' = 0..(size - 1)
          /\ rpc' = "loop"
     ELSE /\ rpc' = "return"
          /\ UNCHANGED <<team, priv, todo>>
  /\ joined' = {}
  /\ UNCHANGED <<arr, size, nthreads, op, initial, retval, sortVars, transformVars, loopVars, pipeVars, shareVars>>

\* Line 15 and the switch: a valid code opens its parallel loop, any other
\* code matches no case and control goes to the return statement.
ReduceEnter ==
  /\ rpc = "entry"
  /\ result' = initial
  /\ IF op \in ValidOps
     THEN /\ team' \in 1..nthreads
          /\ priv' = [w \in 1..team' |-> Identity(op)]
          /\ todo' = 0..(size - 1)
          /\ rpc' = "loop"
     ELSE /\ rpc' = "return"
          /\ UNCHANGED <<team, priv, todo>>
  /\ joined' = {}
  /\ UNCHANGED <<arr, size, nthreads, op, initial, retval, sortVars, transformVars, loopVars, pipeVars, shareVars>>

\* Thread w executes iteration i of the loop on its private copy.
Iterate(w, i) ==
  /\ rpc = "loop"
  /\ w \notin joined
  /\ i \in todo
  /\ priv' = [priv EXCEPT ![w] = Body(op, priv[w], arr[i])]
  /\ todo' = todo \ {i}
  /\ UNCHANGED <<arr, size, nthreads, team, rpc, op, initial, result, joined, retval,
                 sortVars, transformVars, loopVars, pipeVars, shareVars>>

\* Mutant of Combine: the combination is not serialized, thread w combines
\* its private copy with the value result had when the loop began and
\* overwrites what the other threads stored since.
CombineLost(w) ==
  /\ rpc = "loop"
  /\ w \notin joined
  /\ todo = {} \/ (1..team) \ (joined \cup {w}) # {}
  /\ result' = Combiner(op, initial, priv[w])
  /\ joined' = joined \cup {w}
  /\ UNCHANGED <<arr, size, nthreads, team, todo, rpc, op, initial, priv, retval,
                 sortVars, transformVars, loopVars, pipeVars, shareVars>>

\* Thread w has no iteration left (the rest belongs to other threads): its
\* private copy is combined into result.
Combine(w) ==
  /\ rpc = "loop"
  /\ w \notin joined
  /\ todo = {} \/ (1..team) \ (joined \cup {w}) # {}
  /\ result' = Combiner(op, result, priv[w])
  /\ joined' = joined \cup {w}
  /\ UNCHANGED <<arr, size, nthreads, team, todo, rpc, op, initial, priv, retval,
                 sortVars, transformVars, loopVars, pipeVars, shareVars>>

\* The end of the parallel loop and the break.
EndReduce ==
  /\ rpc = "loop"
  /\ joined = 1..team
  /\ rpc' = "return"
  /\ UNCHANGED <<arr, size, nthreads, team, todo, op, initial, result, priv, joined, retval,
                 sortVars, transformVars, loopVars, pipeVars, shareVars>>

\* Line 47: return result.
ReduceReturn ==
  /\ rpc = "return"
  /\ retval' = result
  /\ rpc' = "returned"
  /\ UNCHANGED <<arr, size, nthreads, team, todo, op, initial, result, priv, joined,
                 sortVars, transformVars, loopVars, pipeVars, shareVars>>

\* Initial values: any value, or the operator's identity as in the tests
\* (0.0 for the sum, -INFINITY for max, INFINITY for min).
Initials(o) == IF o \in ValidOps THEN RedValues \cup {Identity(o)} ELSE RedValues

\* The lengths a caller can pass with the array a: its length, or, with no
\* element to designate, a negative int.
Lengths(a) == IF a = << >> THEN {0 - 1, 0} ELSE {Cardinality(DOMAIN a)}

ReduceInit ==
  /\ rpc = "entry"
  /\ arr \in UNION {ArrayOf(n, RedValues) : n \in 0..MaxLen}
  /\ size \in Lengths(arr)
  /\ op \in (0 - 1)..4
  /\ initial \in Initials(op)
  /\ nthreads = MaxThreads
  /\ team = 0
  /\ result = 0
  /\ priv = << >>
  /\ joined = {}
  /\ todo = {}
  /\ retval = 0
  /\ SortIdle
  /\ TransformIdle
  /\ LoopIdle
  /\ PipeIdle
  /\ ShareIdle

ReduceNext ==
  \/ ReduceEnter
  \/ \E w \in 1..team : \E i \in todo : Iterate(w, i)
  \/ \E w \in 1..team : Combine(w)
  \/ EndReduce
  \/ ReduceReturn

ReduceSpec == ReduceInit /\ [][ReduceNext]_vars

(***************************************************************************)
(* parallel_transform (parallel_algorithms.c:57-62).                       *)
(***************************************************************************)
\* #pragma omp parallel for (line 58): a team shares the iterations.
TransformEnter ==
  /\ tpc = "entry"
  /\ team' \in 1..nthreads
  /\ todo' = 0..(size - 1)
  /\ tpc' = "loop"
  /\ UNCHANGED <<arr, size, nthreads, in, out, func, alias, in0, writes,
                 sortVars, reduceVars, loopVars, pipeVars, shareVars>>

\* Mutant of Apply: the iteration stores the value in the input array too.
ApplyStoresIn(w, i) ==
  /\ tpc = "loop"
  /\ i \in todo
  /\ out' = [out EXCEPT ![i] = func[in[i]]]
  /\ in' = [in EXCEPT ![i] = func[in[i]]]
  /\ writes' = [writes EXCEPT ![i] = @ + 1]
  /\ todo' = todo \ {i}
  /\ UNCHANGED <<arr, size, nthreads, team, tpc, func, alias, in0, sortVars, reduceVars, loopVars, pipeVars, shareVars>>

\* Line 60, iteration i run by thread w: out[i] = func(in[i]).  The only
\* store is the one to out[i]; when out is the same array as in, that store
\* is seen through in as well.
Apply(w, i) ==
  /\ tpc = "loop"
  /\ i \in todo
  /\ out' = [out EXCEPT ![i] = func[in[i]]]
  /\ in' = IF alias THEN out' ELSE in
  /\ writes' = [writes EXCEPT ![i] = @ + 1]
  /\ todo' = todo \ {i}
  /\ UNCHANGED <<arr, size, nthreads, team, tpc, func, alias, in0, sortVars, reduceVars, loopVars, pipeVars, shareVars>>

\* Mutant of EndTransform: no barrier, the caller returns while iterations remain.
EndTransformEarly ==
  /\ tpc = "loop"
  /\ tpc' = "returned"
  /\ UNCHANGED <<arr, size, nthreads, team, todo, in, out, func, alias, in0, writes,
                 sortVars, reduceVars, loopVars, pipeVars, shareVars>>

\* The barrier that ends the loop, and the return.
EndTransform ==
  /\ tpc = "loop"
  /\ todo = {}
  /\ tpc' = "returned"
  /\ UNCHANGED <<arr, size, nthreads, team, todo, in, out, func, alias, in0, writes,
                 sortVars, reduceVars, loopVars, pipeVars, shareVars>>

\* The functions of the in-place calls: the rotations x -> x + k of the
\* values, none of which but the identity gives the same result applied twice.
InPlaceFuncs == {[x \in Values |-> (x + k) % (MaxVal + 1)] : k \in Values}

TransformInit ==
  /\ tpc = "entry"
  /\ in \in UNION {ArrayOf(n, Values) : n \in 0..MaxLen}
  /\ size = Cardinality(DOMAIN in)
  /\ alias \in BOOLEAN
  /\ out = IF alias THEN in ELSE [i \in DOMAIN in |-> Uninit]
  /\ in0 = in
  /\ writes = [i \in DOMAIN in |-> 0]
  /\ func \in IF alias THEN InPlaceFuncs ELSE [Values -> Values]
  /\ nthreads = MaxThreads
  /\ team = 0
  /\ todo = {}
  /\ arr = << >>
  /\ SortIdle
  /\ ReduceIdle
  /\ LoopIdle
  /\ PipeIdle
  /\ ShareIdle

TransformNext ==
  \/ TransformEnter
  \/ \E w \in 1..team : \E i \in todo : Apply(w, i)
  \/ EndTransform

TransformSpec == TransformInit /\ [][TransformNext]_vars

(***************************************************************************)
(* The scheduled loops of main (examples/scheduling_comparison.c:22-52):   *)
(*   #pragma omp parallel for reduction(+:sum) schedule(kind, chunk)       *)
(* over the array work.  The example runs 1000000 iterations in chunks of  *)
(* 1000 and 100; here the loop has up to MaxIter iterations and chunks of  *)
(* up to MaxChunk.                                                         *)
(***************************************************************************)
HeavyEvery == 100

HeavyWork == 10000

\* Line 15: every 100th element requires more work.
Work(n) == [i \in 0..(n - 1) |-> IF i % HeavyEvery # 0 THEN 1 ELSE HeavyWork]

\* Lines 25-27, 36-38, 47-49: what the inner loop adds to the sum for an
\* element x of work.  It runs x times; its sum of sin(j) * cos(j) is
\* taken as the number of its iterations.
Term(x) == x

Min(a, b) == IF a < b THEN a ELSE b

Max(a, b) == IF a > b THEN a ELSE b

\* Mutant of StaticStart: the stride of the team is forgotten.
StaticStartNoStride(w, r, c, p) == (r + (w - 1)) * c

\* schedule(static, c) with p threads: the chunks of c iterations are dealt
\* round-robin, thread w takes the chunks w - 1, w - 1 + p, w - 1 + 2p, ...
\* This is where the chunk that thread w takes at its turn r begins.
StaticStart(w, r, c, p) == ((r * p) + (w - 1)) * c

\* The length of the chunk handed out when rem iterations are left:
\* c for static and dynamic; for guided, the iterations left divided by the
\* number of threads, and no less than c; the last chunk may be shorter.
ChunkLen(kind, c, rem, p) ==
  IF kind = "guided"
  THEN Min(rem, Max(c, (rem + p - 1) \div p))
  ELSE Min(rem, c)

NoChunk == [lo |-> 0, hi |-> 0]

\* The parallel region opens: every thread has a private sum of 0.
LoopEnter ==
  /\ lpc = "entry"
  /\ team' \in 1..nthreads
  /\ next' = 0
  /\ round' = [w \in 1..team' |-> 0]
  /\ cur' = [w \in 1..team' |-> NoChunk]
  /\ psum' = [w \in 1..team' |-> 0]
  /\ arrived' = {}
  /\ lpc' = "loop"
  /\ UNCHANGED <<arr, size, nthreads, todo, sched, chunk, execs, sum,
                 sortVars, reduceVars, transformVars, pipeVars, shareVars>>

\* The first iteration of the chunk that thread w would take now.
NextStart(w) ==
  IF sched = "static" THEN StaticStart(w, round[w], chunk, team) ELSE next

\* Thread w has finished its chunk and takes its next one.
Take(w) ==
  /\ lpc = "loop"
  /\ w \notin arrived
  /\ cur[w].lo >= cur[w].hi
  /\ NextStart(w) < size
  /\ \E hi \in {NextStart(w) + ChunkLen(sched, chunk, size - NextStart(w), team)} :
       /\ cur' = [cur EXCEPT ![w] = [lo |-> NextStart(w), hi |-> hi]]
       /\ IF sched = "static"
          THEN round' = [round EXCEPT ![w] = @ + 1] /\ next' = next
          ELSE next' = hi /\ round' = round
  /\ UNCHANGED <<arr, size, nthreads, team, todo, lpc, sched, chunk, execs, psum, sum,
                 arrived, sortVars, reduceVars, transformVars, pipeVars, shareVars>>

\* Thread w runs the body for the next iteration of its chunk.
Run(w) ==
  /\ lpc = "loop"
  /\ cur[w].lo < cur[w].hi
  /\ execs' = [execs EXCEPT ![cur[w].lo] = @ + 1]
  /\ psum' = [psum EXCEPT ![w] = @ + Term(arr[cur[w].lo])]
  /\ cur' = [cur EXCEPT ![w].lo = @ + 1]
  /\ UNCHANGED <<arr, size, nthreads, team, todo, lpc, sched, chunk, next, round, sum,
                 arrived, sortVars, reduceVars, transformVars, pipeVars, shareVars>>

\* No chunk is left for thread w: its private sum is added to the sum and
\* the thread waits at the barrier.
Finish(w) ==
  /\ lpc = "loop"
  /\ w \notin arrived
  /\ cur[w].lo >= cur[w].hi
  /\ NextStart(w) >= size
  /\ sum' = sum + psum[w]
  /\ arrived' = arrived \cup {w}
  /\ UNCHANGED <<arr, size, nthreads, team, todo, lpc, sched, chunk, next, round, cur,
                 execs, psum, sortVars, reduceVars, transformVars, pipeVars, shareVars>>

\* The barrier that ends the loop: main goes on when every thread is there.
LoopEnd ==
  /\ lpc = "loop"
  /\ arrived = 1..team
  /\ lpc' = "returned"
  /\ UNCHANGED <<arr, size, nthreads, team, todo, sched, chunk, next, round, cur, execs,
                 psum, sum, arrived, sortVars, reduceVars, transformVars, pipeVars, shareVars>>

LoopInit ==
  /\ lpc = "entry"
  /\ size \in 0..MaxIter
  /\ arr = Work(size)
  /\ sched \in {"static", "dynamic", "guided"}
  /\ chunk \in 1..MaxChunk
  /\ nthreads = MaxThreads
  /\ team = 0
  /\ next = 0
  /\ round = << >>
  /\ cur = << >>
  /\ execs = [i \in 0..(size - 1) |-> 0]
  /\ psum = << >>
  /\ sum = 0
  /\ arrived = {}
  /\ todo = {}
  /\ SortIdle
  /\ ReduceIdle
  /\ TransformIdle
  /\ PipeIdle
  /\ ShareIdle

LoopNext ==
  \/ LoopEnter
  \/ \E w \in 1..team : Take(w)
  \/ \E w \in 1..team : Run(w)
  \/ \E w \in 1..team : Finish(w)
  \/ LoopEnd

LoopSpec == LoopInit /\ [][LoopNext]_vars

(***************************************************************************)
(* The file pipeline: process_file of task_dependencies.c (lines 7-101)    *)
(* and the three process_file functions of task_benchmark.c (lines 9-201), *)
(* called for each file from a task of the driver (task_dependencies.c     *)
(* 103-119, task_benchmark.c 206-224).  File f is "file_<f>.dat".          *)
(***************************************************************************)
\* task_benchmark.c:27, data_size = file_id * 100.
ItemsPerId == 100

\* task_benchmark.c:31, parsed_data[i] = i % 10.
Modulus == 10

\* task_benchmark.c:44, processed_data[i] = parsed_data[i] * 2.
Factor == 2

Impls == {"example", "original", "tasks_no_nested", "sequential"}

\* The stages: 1 read, 2 process, 3 report, 4 save.
Stages == 1..4

NullPtr == << >>

\* The block that stage k of file f allocates.
Block(f, k) == <<f, k>>

\* Lines 14-17: the local variables of process_file when the call begins.
NoFrame ==
  [data_size |-> 0, parsed_data |-> NullPtr, processed_data |-> NullPtr, report |-> NullPtr]

NoSeen == [data_size |-> 0 - 1, parsed_data |-> NullPtr]

NoReport == [items |-> 0 - 1, sum |-> 0 - 1]

\* The depend(out: ...) clauses of the four stage tasks.
DependOut(k) ==
  CASE k = 1 -> {"data_size", "parsed_data"}
    [] k = 2 -> {"processed_data"}
    [] k = 3 -> {"report"}
    [] k = 4 -> {}

\* Mutant of DependIn: the save task has no depend(in: report) clause.
DependInNoReport(k) ==
  CASE k = 1 -> {}
    [] k = 2 -> {"parsed_data"}
    [] k = 3 -> {"processed_data"}
    [] k = 4 -> {}

\* The depend(in: ...) clauses of the four stage tasks.
DependIn(k) ==
  CASE k = 1 -> {}
    [] k = 2 -> {"parsed_data"}
    [] k = 3 -> {"processed_data"}
    [] k = 4 -> {"report"}

\* The sibling tasks created before task k on which task k depends: those
\* with an out item that k names, or an in item that k names as out.
Preds(k) ==
  {j \in 1..(k - 1) :
     \/ DependOut(j) \cap (DependIn(k) \cup DependOut(k)) # {}
     \/ DependIn(j) \cap DependOut(k) # {}}

\* In process_file_tasks_no_nested the task constructs are not enclosed by a
\* parallel region of the function: the local variables are not shared in
\* the enclosing context, so each task gets a firstprivate copy of those it
\* names.  In the other functions the tasks are inside the function's own
\* parallel region, where the variables are shared.
PrivateCopies == impl = "tasks_no_nested"

\* The variables the code of stage k of file f reads and writes.
Locals(f, k) == IF PrivateCopies THEN cap[f][k] ELSE frame[f]

\* The sum of a[lo..hi].
RECURSIVE SumRange(_, _, _)
SumRange(a, lo, hi) ==
  IF lo > hi THEN 0
  ELSE IF lo = hi THEN a[lo]
  ELSE LET m == lo + ((hi - lo) \div 2)
       IN  SumRange(a, lo, m) + SumRange(a, m + 1, hi)

\* Stage 1 (lines 27-32): data_size, the allocation and the filling of parsed_data.
ReadStage(v, f, h) ==
  [v    |-> [v EXCEPT !.data_size = f * ItemsPerId, !.parsed_data = Block(f, 1)],
   heap |-> (Block(f, 1) :> [i \in 0..((f * ItemsPerId) - 1) |-> i % Modulus]) @@ h]

\* Stage 2 (lines 40-45): processed_data[i] = parsed_data[i] * 2 for
\* i < data_size; malloc(0) gives an empty block.
ProcessStage(v, f, h) ==
  [v    |-> [v EXCEPT !.processed_data = Block(f, 2)],
   heap |-> (Block(f, 2) :> [i \in 0..(v.data_size - 1) |-> h[v.parsed_data][i] * Factor]) @@ h]

\* Stage 3 (lines 54-60): the sum of processed_data and the report text.
ReportStage(v, f, h) ==
  [v    |-> [v EXCEPT !.report = Block(f, 3)],
   heap |-> (Block(f, 3) :>
               [items |-> v.data_size,
                sum   |-> IF v.data_size = 0 THEN 0
                          ELSE SumRange(h[v.processed_data], 0, v.data_size - 1)]) @@ h]

\* Stage 4 (line 69) only sleeps.
StageBody(k, v, f, h) ==
  CASE k = 1 -> ReadStage(v, f, h)
    [] k = 2 -> ProcessStage(v, f, h)
    [] k = 3 -> ReportStage(v, f, h)
    [] k = 4 -> [v |-> v, heap |-> h]

\* The calls of process_file that hold a thread of the driver's team.
Active == {f \in 1..nfiles : fpc[f] \in {"body", "free"}}

\* #pragma omp parallel and single of the driver.
DriverEnter ==
  /\ ppc = "entry"
  /\ team' \in 1..nthreads
  /\ ppc' = "single"
  /\ UNCHANGED <<arr, size, nthreads, todo, impl, nfiles, created, fpc, made, stg, frame,
                 cap, seen, reported, heap, sortVars, reduceVars, transformVars, loopVars,
                 shareVars>>

\* One iteration of the driver's loop: #pragma omp task process_file(files[i]).
CreateFile ==
  /\ ppc = "single"
  /\ created < nfiles
  /\ fpc' = [fpc EXCEPT ![created + 1] = "created"]
  /\ created' = created + 1
  /\ UNCHANGED <<arr, size, nthreads, team, todo, ppc, impl, nfiles, made, stg, frame, cap,
                 seen, reported, heap, sortVars, reduceVars, transformVars, loopVars,
                 shareVars>>

\* The loop is over: the thread leaves the single block.
EndSingle ==
  /\ ppc = "single"
  /\ created = nfiles
  /\ ppc' = "barrier"
  /\ UNCHANGED <<arr, size, nthreads, team, todo, impl, nfiles, created, fpc, made, stg,
                 frame, cap, seen, reported, heap, sortVars, reduceVars, transformVars,
                 loopVars, shareVars>>

\* A thread of the team starts the task of file f: process_file is entered.
FileStart(f) ==
  /\ fpc[f] = "created"
  /\ Cardinality(Active) < team
  /\ fpc' = [fpc EXCEPT ![f] = "body"]
  /\ UNCHANGED <<arr, size, nthreads, team, todo, ppc, impl, nfiles, created, made, stg,
                 frame, cap, seen, reported, heap, sortVars, reduceVars, transformVars,
                 loopVars, shareVars>>

\* process_file creates its next stage task; where the variables are not
\* shared the task takes its copies of them now.
CreateStage(f) ==
  /\ impl # "sequential"
  /\ fpc[f] = "body"
  /\ made[f] < 4
  /\ made' = [made EXCEPT ![f] = @ + 1]
  /\ stg' = [stg EXCEPT ![f][made[f] + 1] = "created"]
  /\ cap' = IF PrivateCopies THEN [cap EXCEPT ![f][made[f] + 1] = frame[f]] ELSE cap
  /\ UNCHANGED <<arr, size, nthreads, team, todo, ppc, impl, nfiles, created, fpc, frame,
                 seen, reported, heap, sortVars, reduceVars, transformVars, loopVars,
                 shareVars>>

\* Stage k of file f starts: a task once the tasks it depends on have
\* completed, a stage of the sequential function in program order.
StageStart(f, k) ==
  /\ IF impl = "sequential"
     THEN /\ fpc[f] = "body"
          /\ stg[f][k] = "none"
          /\ IF k = 1 THEN TRUE ELSE stg[f][k - 1] = "done"
     ELSE /\ stg[f][k] = "created"
          /\ \A j \in Preds(k) : stg[f][j] = "done"
  /\ stg' = [stg EXCEPT ![f][k] = "running"]
  /\ UNCHANGED <<arr, size, nthreads, team, todo, ppc, impl, nfiles, created, fpc, made,
                 frame, cap, seen, reported, heap, sortVars, reduceVars, transformVars,
                 loopVars, shareVars>>

\* Stage k of file f runs its code and completes.
StageEnd(f, k) ==
  /\ stg[f][k] = "running"
  /\ \E r \in {StageBody(k, Locals(f, k), f, heap)} :
       /\ heap' = r.heap
       /\ IF PrivateCopies
          THEN cap' = [cap EXCEPT ![f][k] = r.v] /\ frame' = frame
          ELSE frame' = [frame EXCEPT ![f] = r.v] /\ cap' = cap
       /\ reported' = IF k = 3 THEN [reported EXCEPT ![f] = r.heap[Block(f, 3)]] ELSE reported
  /\ seen' = IF k = 2
             THEN [seen EXCEPT ![f] = [data_size   |-> Locals(f, k).data_size,
                                       parsed_data |-> Locals(f, k).parsed_data]]
             ELSE seen
  /\ stg' = [stg EXCEPT ![f][k] = "done"]
  /\ UNCHANGED <<arr, size, nthreads, team, todo, ppc, impl, nfiles, created, fpc, made,
                 sortVars, reduceVars, transformVars, loopVars, shareVars>>

\* The end of the function's parallel region (example, original), the
\* taskwait (tasks_no_nested) or the end of stage 4 (sequential).
Wait(f) ==
  /\ fpc[f] = "body"
  /\ impl = "sequential" \/ made[f] = 4
  /\ \A k \in Stages : stg[f][k] = "done"
  /\ fpc' = [fpc EXCEPT ![f] = "free"]
  /\ UNCHANGED <<arr, size, nthreads, team, todo, ppc, impl, nfiles, created, made, stg,
                 frame, cap, seen, reported, heap, sortVars, reduceVars, transformVars,
                 loopVars, shareVars>>

\* free(parsed_data); free(processed_data); free(report); return.
FreeBuffers(f) ==
  /\ fpc[f] = "free"
  /\ heap' = [b \in DOMAIN heap \ {frame[f].parsed_data, frame[f].processed_data,
                                  frame[f].report} |-> heap[b]]
  /\ fpc' = [fpc EXCEPT ![f] = "done"]
  /\ UNCHANGED <<arr, size, nthreads, team, todo, ppc, impl, nfiles, created, made, stg,
                 frame, cap, seen, reported, sortVars, reduceVars, transformVars, loopVars,
                 shareVars>>

\* The barrier that ends the driver's parallel region.
DriverBarrier ==
  /\ ppc = "barrier"
  /\ \A f \in 1..nfiles : fpc[f] = "done"
  /\ ppc' = "returned"
  /\ UNCHANGED <<arr, size, nthreads, team, todo, impl, nfiles, created, fpc, made, stg,
                 frame, cap, seen, reported, heap, sortVars, reduceVars, transformVars,
                 loopVars, shareVars>>

PipeInit ==
  /\ ppc = "entry"
  /\ impl \in Impls
  /\ nfiles \in 1..MaxFiles
  /\ created = 0
  /\ fpc = [f \in 1..nfiles |-> "none"]
  /\ made = [f \in 1..nfiles |-> 0]
  /\ stg = [f \in 1..nfiles |-> [k \in Stages |-> "none"]]
  /\ frame = [f \in 1..nfiles |-> NoFrame]
  /\ cap = [f \in 1..nfiles |-> [k \in Stages |-> NoFrame]]
  /\ seen = [f \in 1..nfiles |-> NoSeen]
  /\ reported = [f \in 1..nfiles |-> NoReport]
  /\ heap = << >>
  /\ nthreads = MaxThreads
  /\ team = 0
  /\ arr = << >>
  /\ size = 0
  /\ todo = {}
  /\ SortIdle
  /\ ReduceIdle
  /\ TransformIdle
  /\ LoopIdle
  /\ ShareIdle

PipeNext ==
  \/ DriverEnter
  \/ CreateFile
  \/ EndSingle
  \/ \E f \in 1..nfiles : FileStart(f)
  \/ \E f \in 1..nfiles : CreateStage(f)
  \/ \E f \in 1..nfiles : \E k \in Stages : StageStart(f, k)
  \/ \E f \in 1..nfiles : \E k \in Stages : StageEnd(f, k)
  \/ \E f \in 1..nfiles : Wait(f)
  \/ \E f \in 1..nfiles : FreeBuffers(f)
  \/ DriverBarrier

PipeSpec == PipeInit /\ [][PipeNext]_vars

(***************************************************************************)
(* main of data_sharing_clauses.c.  Thread w of the team has               *)
(* omp_get_thread_num() = w - 1.  Two clauses are outside what OpenMP      *)
(* defines: lastprivate is not a clause of the parallel construct (line    *)
(* 19), and the reduction clause of the second loop (line 46) names a      *)
(* variable that is private in the enclosing parallel region, where it     *)
(* must be shared.  What these leave in the original variables is a choice *)
(* among the outcomes named with each step.                                *)
(***************************************************************************)
\* Line 15: num_threads(4), the number of threads requested.
NumThreads == 4

\* Line 8: int firstprivate_var = 100.
FirstInit == 100

\* Line 32: private_result = thread_id * 10.
Tens == 10

\* Line 41: the first loop runs i = 0..15.
LastIters == 16

\* Line 42: lastprivate_var = i + 100 + thread_id.
LastBase == 100

\* Line 47: the second loop runs i = 1..100.
SumIters == 100

\* The iterations lo <= i < hi of a loop of n iterations from first that
\* thread w runs: the loops have no schedule clause, the team shares them
\* in blocks.
BlockLo(w, n, first) == first + (((w - 1) * n) \div team)

BlockHi(w, n, first) == first + ((w * n) \div team)

\* lo + (lo + 1) + ... + (hi - 1).
RECURSIVE SumInts(_, _)
SumInts(lo, hi) ==
  IF lo >= hi THEN 0
  ELSE IF lo + 1 = hi THEN lo
  ELSE LET m == lo + ((hi - lo) \div 2)
       IN  SumInts(lo, m) + SumInts(m, hi)

\* Lines 15-20: the team is formed; private_result and lastprivate_var get
\* uninitialized copies, firstprivate_var copies of its value and
\* reduction_sum copies holding 0.
ShareEnter ==
  /\ dpc = "before"
  /\ team' \in 1..NumThreads
  /\ at' = [w \in 1..team' |-> "start"]
  /\ reg' = [w \in 1..team' |-> 0]
  /\ p_private' = [w \in 1..team' |-> Uninit]
  /\ p_first' = [w \in 1..team' |-> firstprivate_var]
  /\ p_last' = [w \in 1..team' |-> Uninit]
  /\ p_sum' = [w \in 1..team' |-> 0]
  /\ dpc' = "region"
  /\ UNCHANGED <<arr, size, nthreads, todo, shared_var, private_result, firstprivate_var,
                 lastprivate_var, reduction_sum, owner, sortVars, reduceVars, transformVars,
                 loopVars, pipeVars>>

\* Lines 25-27: thread w enters the critical block when no thread is inside
\* and loads shared_var.
Critical(w) ==
  /\ dpc = "region"
  /\ at[w] = "start"
  /\ owner = 0
  /\ owner' = w
  /\ reg' = [reg EXCEPT ![w] = shared_var]
  /\ at' = [at EXCEPT ![w] = "critical"]
  /\ UNCHANGED <<arr, size, nthreads, team, todo, dpc, shared_var, private_result,
                 firstprivate_var, lastprivate_var, reduction_sum, p_private, p_first,
                 p_last, p_sum, sortVars, reduceVars, transformVars, loopVars, pipeVars>>

\* Lines 27-29: thread w stores the incremented value and leaves the block.
EndCritical(w) ==
  /\ dpc = "region"
  /\ at[w] = "critical"
  /\ shared_var' = reg[w] + 1
  /\ owner' = 0
  /\ at' = [at EXCEPT ![w] = "private"]
  /\ UNCHANGED <<arr, size, nthreads, team, todo, dpc, private_result, firstprivate_var,
                 lastprivate_var, reduction_sum, reg, p_private, p_first, p_last, p_sum,
                 sortVars, reduceVars, transformVars, loopVars, pipeVars>>

\* Lines 32-37: the assignments to the thread's copies of private_result
\* and firstprivate_var.
Assign(w) ==
  /\ dpc = "region"
  /\ at[w] = "private"
  /\ p_private' = [p_private EXCEPT ![w] = (w - 1) * Tens]
  /\ p_first' = [p_first EXCEPT ![w] = @ + (w - 1)]
  /\ at' = [at EXCEPT ![w] = "for1"]
  /\ UNCHANGED <<arr, size, nthreads, team, todo, dpc, shared_var, private_result,
                 firstprivate_var, lastprivate_var, reduction_sum, owner, reg, p_last,
                 p_sum, sortVars, reduceVars, transformVars, loopVars, pipeVars>>

\* Lines 40-43: thread w runs its iterations of the first loop and waits at
\* the barrier that ends it.
LastLoop(w) ==
  /\ dpc = "region"
  /\ at[w] = "for1"
  /\ p_last' = IF BlockLo(w, LastIters, 0) < BlockHi(w, LastIters, 0)
               THEN [p_last EXCEPT ![w] = (BlockHi(w, LastIters, 0) - 1) + LastBase + (w - 1)]
               ELSE p_last
  /\ at' = [at EXCEPT ![w] = "barrier1"]
  /\ UNCHANGED <<arr, size, nthreads, team, todo, dpc, shared_var, private_result,
                 firstprivate_var, lastprivate_var, reduction_sum, owner, reg, p_private,
                 p_first, p_sum, sortVars, reduceVars, transformVars, loopVars, pipeVars>>

\* Lines 46-49: once every thread has ended the first loop, thread w adds
\* its iterations of the second loop.  The loop's reduction variable is the
\* thread's copy made for the reduction of the parallel construct: the sum
\* of the thread's iterations reaches that copy, or does not.
SumLoop(w) ==
  /\ dpc = "region"
  /\ at[w] = "barrier1"
  /\ \A v \in 1..team : at[v] \in {"barrier1", "barrier2"}
  /\ \E kept \in BOOLEAN :
       p_sum' = IF kept
                THEN [p_sum EXCEPT ![w] = @ + SumInts(BlockLo(w, SumIters, 1),
                                                      BlockHi(w, SumIters, 1))]
                ELSE p_sum
  /\ at' = [at EXCEPT ![w] = "barrier2"]
  /\ UNCHANGED <<arr, size, nthreads, team, todo, dpc, shared_var, private_result,
                 firstprivate_var, lastprivate_var, reduction_sum, owner, reg, p_private,
                 p_first, p_last, sortVars, reduceVars, transformVars, loopVars, pipeVars>>

\* The sum of the copies p[1..n].
RECURSIVE SumCopies(_, _)
SumCopies(p, n) == IF n = 0 THEN 0 ELSE p[n] + SumCopies(p, n - 1)

\* Line 50: the region ends.  The copies of reduction_sum are added to the
\* original; the copies of private_result and firstprivate_var are dropped;
\* lastprivate_var keeps its value or receives the copy of the thread that
\* ran the last iteration of the first loop.
ShareEnd ==
  /\ dpc = "region"
  /\ \A w \in 1..team : at[w] = "barrier2"
  /\ reduction_sum' = reduction_sum + SumCopies(p_sum, team)
  /\ lastprivate_var' \in {lastprivate_var, p_last[team]}
  /\ dpc' = "after"
  /\ UNCHANGED <<arr, size, nthreads, team, todo, shared_var, private_result,
                 firstprivate_var, at, owner, reg, p_private, p_first, p_last, p_sum,
                 sortVars, reduceVars, transformVars, loopVars, pipeVars>>

\* Lines 6-10.
ShareInit ==
  /\ dpc = "before"
  /\ shared_var = 0
  /\ private_result = 0
  /\ firstprivate_var = FirstInit
  /\ lastprivate_var = 0
  /\ reduction_sum = 0
  /\ at = << >>
  /\ owner = 0
  /\ reg = << >>
  /\ p_private = << >>
  /\ p_first = << >>
  /\ p_last = << >>
  /\ p_sum = << >>
  /\ nthreads = NumThreads
  /\ team = 0
  /\ arr = << >>
  /\ size = 0
  /\ todo = {}
  /\ SortIdle
  /\ ReduceIdle
  /\ TransformIdle
  /\ LoopIdle
  /\ PipeIdle

ShareNext ==
  \/ ShareEnter
  \/ \E w \in 1..team : Critical(w)
  \/ \E w \in 1..team : EndCritical(w)
  \/ \E w \in 1..team : Assign(w)
  \/ \E w \in 1..team : LastLoop(w)
  \/ \E w \in 1..team : SumLoop(w)
  \/ ShareEnd

ShareSpec == ShareInit /\ [][ShareNext]_vars

(***************************************************************************)
(* Properties of parallel_sort.                                            *)
(***************************************************************************)
NonDecreasing(a) ==
  \A i \in DOMAIN a : (i + 1) \in DOMAIN a => Key(a[i]) <= Key(a[i + 1])

Count(a, v) == Cardinality({i \in DOMAIN a : a[i] = v})

ValuesOf(a) == {a[i] : i \in DOMAIN a}

\* Same length and same multiset of values.
Permutation(a, b) ==
  /\ DOMAIN a = DOMAIN b
  /\ \A v \in ValuesOf(a) \cup ValuesOf(b) : Count(a, v) = Count(b, v)

\* p is the path of t or of an ancestor of t.
IsPrefix(p, t) == Len(p) <= Len(t) /\ SubSeq(t, 1, Len(p)) = p

\* Neither task is an ancestor of the other.
Unrelated(t, u) == ~IsPrefix(t, u) /\ ~IsPrefix(u, t)

Descendants(t) == {u \in DOMAIN task : u # t /\ IsPrefix(t, u)}

\* Two recorded sets of indexes have no index in common.
Apart(f, g) == f.hi < f.lo \/ g.hi < g.lo \/ f.hi < g.lo \/ g.hi < f.lo

\* C1: when parallel_sort returns after a successful allocation, the array is
\* non-decreasing and is a permutation of the input, for every input, every
\* number of threads and every interleaving of the tasks.
SortedPermutation ==
  (spc = "returned" /\ tempSt = "freed") => (NonDecreasing(arr) /\ Permutation(arr, input))

\* A call that forked on an input that was not sorted has returned.
SortedPermutationWitness ==
  /\ spc = "returned" /\ tempSt = "freed"
  /\ HasChildren(Root)
  /\ ~NonDecreasing(input)

\* C4: tasks that run at the same time are in different subtrees, and tasks
\* of different subtrees have accessed disjoint indexes of the array and
\* disjoint indexes of the auxiliary buffer.
DisjointAccess ==
  \A t \in DOMAIN task : \A u \in DOMAIN task \ {t} :
    /\ (t \in Running /\ u \in Running) => Unrelated(t, u)
    /\ Unrelated(t, u) => (Apart(task[t].ia, task[u].ia) /\ Apart(task[t].it, task[u].it))

\* Two tasks hold a thread at the same time, each having merged its range.
DisjointAccessWitness ==
  \E t \in DOMAIN task : \E u \in DOMAIN task \ {t} :
    /\ task[t].st = "Merged" /\ task[u].st = "Merged"
    /\ task[t].ia.lo <= task[t].ia.hi /\ task[u].ia.lo <= task[u].ia.hi
    /\ task[t].it.lo <= task[t].it.hi /\ task[u].it.lo <= task[u].it.hi

\* C5: a task that is past its taskwait (merging, merged or done) has no
\* child or further descendant that is not done.
MergeAfterChildren ==
  \A t \in DOMAIN task :
    (HasChildren(t) /\ task[t].st \in {"Joined", "Merged", "Done"})
      => \A u \in Descendants(t) : task[u].st = "Done"

\* A task whose children forked in turn is about to merge.
MergeAfterChildrenWitness ==
  \E t \in DOMAIN task :
    /\ task[t].st = "Joined"
    /\ \E u \in Descendants(t) : HasChildren(u)

\* C6: when the allocation of the auxiliary buffer fails, parallel_sort has
\* returned, every element of the array has its original value and no sort
\* task was created.
AllocFailureLeavesArray ==
  tempSt = "null" => (spc = "returned" /\ arr = input /\ task = << >>)

\* The allocation failed for an array that a sort would have changed.
AllocFailureLeavesArrayWitness ==
  tempSt = "null" /\ spc = "returned" /\ ~NonDecreasing(input)

\* What a successful call leaves in the caller's array (C1): the sorted input.
SortedInput == mergesort_serial(input, input, 0, size - 1).arr

\* C7: a call that failed to allocate the buffer leaves its caller a result
\* that differs from the result of a successful call on the same array.
\* parallel_sort returns void and sets nothing else, so the array is all
\* the caller can observe.
AllocFailureDistinct ==
  (spc = "returned" /\ tempSt = "null") => arr # SortedInput

\* C11: sorting is idempotent.  When parallel_sort returns from a call on an
\* array that was already non-decreasing, every element is at the position
\* it had (a zero keeps its sign): the result of a sort, which is
\* non-decreasing (C1), is left as it is by a second sort.
SortIdempotent ==
  (spc = "returned" /\ tempSt = "freed" /\ NonDecreasing(input)) => arr = input

\* A non-decreasing array with zeros of both signs was sorted by forked tasks.
SortIdempotentWitness ==
  /\ spc = "returned" /\ tempSt = "freed"
  /\ NonDecreasing(input)
  /\ HasChildren(Root)
  /\ \E i \in DOMAIN input : \E j \in DOMAIN input : input[i] = 0 /\ input[j] = NegZero

\* The steps of a call that run neither mergesort_serial nor merge.
ControlStep ==
  \/ Malloc
  \/ Parallel
  \/ Single
  \/ \E t \in DOMAIN task : Start(t) \/ Fork(t) \/ Join(t) \/ Return(t)
  \/ Barrier
  \/ Free

\* A task is inside mergesort_serial or merge; both return, their loops and
\* their recursion being bounded by the range (SerialSort, Merge).
Computing ==
  spc = "region" /\ \E t \in DOMAIN task : task[t].st \in {"Sequential", "Joined"}

\* The number of steps that a task created with depth budget d can cause at
\* most: 2 when it sorts serially, 4 and the steps of two children when it
\* forks.
RECURSIVE Cost(_)
Cost(d) == IF d <= 0 THEN 2 ELSE 4 + (2 * Cost(d - 1))

TaskRank(t) ==
  CASE task[t].st = "Created" -> Cost(task[t].depth)
    [] task[t].st = "Forked" -> 3
    [] task[t].st = "Joined" -> 2
    [] task[t].st = "Sequential" -> 1
    [] task[t].st = "Merged" -> 1
    [] task[t].st = "Done" -> 0

RECURSIVE SumRank(_)
SumRank(S) ==
  IF S = {} THEN 0
  ELSE LET t == CHOOSE u \in S : TRUE IN TaskRank(t) + SumRank(S \ {t})

\* A bound on the number of steps that the call can still take.
Rank ==
  CASE spc = "entry" -> 5 + Cost(nthreads)
    [] spc = "parallel" -> 4 + Cost(max_depth)
    [] spc = "single" -> 3 + Cost(max_depth)
    [] spc = "region" -> 2 + SumRank(DOMAIN task)
    [] spc = "free" -> 1
    [] spc = "returned" -> 0

\* C13: every parallel_sort call terminates when the threads are scheduled
\* fairly, and when it returns every task that it created is done.
\*  - at the return no task is created, running or waiting;
\*  - until the return some step can always be taken;
\*  - every step lowers Rank, a natural number, so no call runs for ever;
\*  - (checked directly for the short arrays) the call returns.
SortTerminates ==
  /\ [](spc = "returned" => \A t \in DOMAIN task : task[t].st = "Done")
  /\ [](spc = "returned" \/ Computing \/ ENABLED ControlStep)
  /\ [][Rank' < Rank]_vars
  /\ (size <= MaxLen) ~> (spc = "returned")

\* A call that forked twice has returned: seven tasks, all done.
SortTerminatesWitness ==
  /\ spc = "returned"
  /\ Cardinality(DOMAIN task) = 7
  /\ \A t \in DOMAIN task : task[t].st = "Done"

\* The moves of a task from one state to the next.
TaskMoves ==
  {<<"Created", "Sequential">>, <<"Sequential", "Done">>,
   <<"Created", "Forked">>, <<"Forked", "Joined">>, <<"Joined", "Merged">>,
   <<"Merged", "Done">>}

RangeSorted(a, left, right) ==
  \A i \in left..(right - 1) : Key(a[i]) <= Key(a[i + 1])

\* C14: a task appears in state Created, stays a task for the rest of the
\* call, and changes state only by Created -> Sequential -> Done or
\* Created -> Forked -> Joined -> Merged -> Done; whenever a task is Done its
\* range of the array is non-decreasing and all its descendants are Done.
TaskLifeCycle ==
  /\ [][/\ DOMAIN task \subseteq DOMAIN task'
        /\ \A t \in DOMAIN task' :
             IF t \in DOMAIN task
             THEN \/ task'[t].st = task[t].st
                  \/ <<task[t].st, task'[t].st>> \in TaskMoves
             ELSE task'[t].st = "Created"]_vars
  /\ [](\A t \in DOMAIN task :
          task[t].st = "Done" =>
            /\ RangeSorted(arr, task[t].left, task[t].right)
            /\ \A u \in Descendants(t) : task[u].st = "Done")

\* Inside the region the root task is Done by the forking path, on an input
\* that was not sorted, its children being Done by the sequential path.
TaskLifeCycleWitness ==
  /\ spc = "region"
  /\ ~NonDecreasing(input)
  /\ task[Root].st = "Done"
  /\ HasChildren(Root)
  /\ ~HasChildren(<<0>>) /\ ~HasChildren(<<1>>)

\* C16: a task with depth <= 0 or right - left <= CUTOFF never has a child
\* and goes by the sequential path, which, when it is done, has accessed
\* its range [left, right] of the array and of the buffer and nothing else
\* (nothing at all for a range of one element or none); a task that has
\* children has depth > 0 and right - left > CUTOFF.
SequentialFallback ==
  \A t \in DOMAIN task :
    /\ (task[t].depth <= 0 \/ task[t].right - task[t].left <= CUTOFF) =>
         /\ ~HasChildren(t)
         /\ task[t].st \in {"Created", "Sequential", "Done"}
         /\ (task[t].st = "Done" /\ task[t].left < task[t].right) =>
              /\ task[t].ia = [lo |-> task[t].left, hi |-> task[t].right]
              /\ task[t].it = [lo |-> task[t].left, hi |-> task[t].right]
         /\ (task[t].st = "Done" /\ task[t].left >= task[t].right) =>
              (task[t].ia = NoAccess /\ task[t].it = NoAccess)
    /\ HasChildren(t) => (task[t].depth > 0 /\ task[t].right - task[t].left > CUTOFF)

\* A task without depth budget sorted a range longer than the cutoff.
SequentialFallbackWitness ==
  \E t \in DOMAIN task :
    /\ task[t].depth = 0
    /\ task[t].right - task[t].left > CUTOFF
    /\ task[t].st = "Done"

\* The number of elements of a task's range [left, right].
Elements(t) == (task[t].right - task[t].left) + 1

\* C17, as the claim states it: a task with a positive depth budget that has
\* left state Created has children if and only if its range holds more than
\* CUTOFF elements.
CutoffCountsElements ==
  \A t \in DOMAIN task :
    (task[t].depth > 0 /\ task[t].st # "Created") =>
      (HasChildren(t) <=> Elements(t) > CUTOFF)

\* C17, amended: the test of line 99 compares right - left, one less than
\* the number of elements, with CUTOFF.  A task with a positive depth budget
\* that has left state Created has children if and only if its range holds
\* more than CUTOFF + 1 elements; a range of CUTOFF + 1 elements is sorted
\* sequentially.
CutoffComparesDifference ==
  \A t \in DOMAIN task :
    (task[t].depth > 0 /\ task[t].st # "Created") =>
      (HasChildren(t) <=> Elements(t) > CUTOFF + 1)

\* A task with depth budget sorted a range of CUTOFF + 1 elements without
\* forking.
CutoffComparesDifferenceWitness ==
  \E t \in DOMAIN task :
    /\ task[t].depth > 0
    /\ Elements(t) = CUTOFF + 1
    /\ task[t].st = "Done"
    /\ ~HasChildren(t)

\* C18: a task (left, right, depth) that has forked has exactly the children
\* (left, mid, depth - 1) and (mid + 1, right, depth - 1) with
\* mid = left + (right - left) / 2 and left <= mid < right: the two ranges
\* are not empty, are smaller than the parent's, have no index in common
\* and together are the parent's range.
ForkSplitsRange ==
  \A t \in DOMAIN task :
    HasChildren(t) =>
      LET l == task[t].left
          r == task[t].right
          m == l + ((r - l) \div 2)
          a == task[Append(t, 0)]
          b == task[Append(t, 1)]
      IN /\ Append(t, 1) \in DOMAIN task
         /\ \A u \in DOMAIN task :
              (Len(u) = Len(t) + 1 /\ IsPrefix(t, u)) => u \in {Append(t, 0), Append(t, 1)}
         /\ a.left = l /\ a.right = m /\ a.depth = task[t].depth - 1
         /\ b.left = m + 1 /\ b.right = r /\ b.depth = task[t].depth - 1
         /\ l <= m /\ m < r
         /\ a.left <= a.right /\ b.left <= b.right
         /\ a.right - a.left < r - l /\ b.right - b.left < r - l
         /\ (a.left..a.right) \cap (b.left..b.right) = {}
         /\ (a.left..a.right) \cup (b.left..b.right) = l..r

\* The root and both its children have forked; the four grandchildren
\* have not started.
ForkSplitsRangeWitness ==
  /\ spc = "region"
  /\ Cardinality(DOMAIN task) = 7
  /\ \A t \in DOMAIN task : task[t].st \in {"Forked", "Created"}

\* The tasks that have been created and are not done yet.
Live == {t \in DOMAIN task : task[t].st # "Done"}

\* C19: with the depth budget seeded to the number of threads P, the number
\* of tasks that are live at the same time is at most a small multiple of P
\* (here 3 P, which is what one thread reaches: a forked root and its two
\* children).
LiveTasksRoughlyP == Cardinality(Live) <= 3 * nthreads

\* The elements of a[lo..hi] that compare equal to 0, in the order of their
\* indexes.  They are the elements that compare equal and can be told
\* apart (0 and -0).
RECURSIVE Zeros(_, _, _)
Zeros(a, lo, hi) ==
  IF lo > hi THEN << >>
  ELSE IF lo = hi THEN (IF Key(a[lo]) = 0 THEN <<a[lo]>> ELSE << >>)
  ELSE Zeros(a, lo, lo + ((hi - lo) \div 2))
         \o Zeros(a, lo + ((hi - lo) \div 2) + 1, hi)

\* The range of task t holds the result of t: t has merged or sorted, and
\* the task that created it has not merged yet.
Settled(t) ==
  /\ task[t].st \in {"Merged", "Done"}
  /\ t # Root => task[SubSeq(t, 1, Len(t) - 1)].st \in {"Forked", "Joined"}

\* C20: the merge is stable.  After the merge of a task, after the
\* sequential sort of a task and after the whole sort, the elements that
\* compare equal are in the order they had in the input: on a tie between
\* the two halves the element of the left half was placed first.
MergeStable ==
  /\ \A t \in DOMAIN task :
       Settled(t) =>
         Zeros(arr, task[t].left, task[t].right) = Zeros(input, task[t].left, task[t].right)
  /\ (spc = "returned" /\ tempSt = "freed") =>
       Zeros(arr, 0, size - 1) = Zeros(input, 0, size - 1)

\* merge has run in a forking task on two halves that hold zeros of both
\* signs.
MergeStableWitness ==
  /\ HasChildren(Root)
  /\ task[Root].st = "Merged"
  /\ \E i \in task[<<0>>].left..task[<<0>>].right :
       \E j \in task[<<1>>].left..task[<<1>>].right :
         input[i] = 0 /\ input[j] = NegZero

\* C10: on an array of length 0 or 1 parallel_sort forks no task, performs no
\* merge, leaves the array as it was, and returns.
TrivialSortSafe ==
  /\ arr = input
  /\ DOMAIN task \subseteq {Root}
  /\ \A t \in DOMAIN task :
       /\ task[t].st \in {"Created", "Sequential", "Done"}
       /\ task[t].ia = NoAccess /\ task[t].it = NoAccess

TrivialSort ==
  /\ [](size <= 1 => TrivialSortSafe)
  /\ (size <= 1) ~> (spc = "returned")

\* A one-element array went through the serial sort and the call returned.
TrivialSortWitness ==
  /\ size = 1 /\ spc = "returned" /\ tempSt = "freed"
  /\ task[Root].st = "Done"

\* The life of the auxiliary buffer, step by step: it is allocated (or
\* refused) by the first step of the call only, freed only from the
\* allocated state, and no step touches it, moves a task or changes the
\* array once it is freed.
BufferSteps ==
  /\ tempSt' # tempSt =>
       \/ tempSt = "none" /\ spc = "entry" /\ tempSt' \in {"allocated", "null"}
       \/ tempSt = "allocated" /\ tempSt' = "freed" /\ spc' = "returned"
  /\ (temp' # temp \/ task' # task) => tempSt' = "allocated"
  /\ tempSt = "freed" => (temp' = temp /\ task' = task /\ arr' = arr)

\* C23: the auxiliary buffer is allocated once before the first sort task
\* exists and freed only after every sort task of the call is done; no task
\* reads or writes it after it is freed, whichever threads of the team run
\* the tasks, and a successful call frees it exactly once.
BufferLifetime ==
  /\ [](/\ task # << >> => tempSt \in {"allocated", "freed"}
        /\ (\E t \in DOMAIN task : task[t].st # "Done") => tempSt = "allocated"
        /\ tempSt = "freed" => spc = "returned"
        /\ (spc = "returned" /\ tempSt # "null") => tempSt = "freed")
  /\ [][BufferSteps]_vars

\* A call whose tasks were run by two threads has freed the buffer.
BufferLifetimeWitness ==
  /\ spc = "returned" /\ tempSt = "freed" /\ team = 2
  /\ Cardinality(DOMAIN task) >= 3
  /\ \A t \in DOMAIN task : task[t].st = "Done"

\* The step runs the code of task t on the array: mergesort_serial for a
\* task in state Sequential, merge for a task in state Joined.
Works(t) ==
  /\ task[t].st \in {"Sequential", "Joined"}
  /\ task'[t].st # task[t].st

\* The step leaves arr and temp as they were outside [left, right].
FrameOf(left, right) ==
  \A i \in DOMAIN arr :
    (i < left \/ i > right) => (arr'[i] = arr[i] /\ temp'[i] = temp[i])

\* a and b hold the same multiset of values on [left, right].
RangePermutation(a, b, left, right) ==
  \A v \in {a[i] : i \in left..right} :
    Cardinality({i \in left..right : a[i] = v}) = Cardinality({i \in left..right : b[i] = v})

\* C25: merge and every sort task on [left, right] leave the elements of
\* arr and of temp outside [left, right] unchanged; merge is called on two
\* sorted halves and leaves arr[left..right] sorted and a permutation of
\* its previous content, and so does the sequential sort of a task.
SortFrame ==
  [][/\ (tempSt = "allocated" /\ (arr' # arr \/ temp' # temp)) =>
          \E t \in DOMAIN task : Works(t)
     /\ \A t \in DOMAIN task :
          Works(t) =>
            /\ FrameOf(task[t].left, task[t].right)
            /\ task[t].st = "Joined" =>
                 /\ RangeSorted(arr, task[t].left, Mid(task[t].left, task[t].right))
                 /\ RangeSorted(arr, Mid(task[t].left, task[t].right) + 1, task[t].right)
            /\ RangeSorted(arr', task[t].left, task[t].right)
            /\ RangePermutation(arr', arr, task[t].left, task[t].right)]_vars

\* The second child of the root has merged its two halves, which lie above
\* the first child's range, and changed the array in doing so.
SortFrameWitness ==
  /\ <<1>> \in DOMAIN task /\ task[<<1>>].st = "Merged"
  /\ task[<<1>>].left > 0
  /\ task[<<1>>].ia.lo = task[<<1>>].left /\ task[<<1>>].ia.hi = task[<<1>>].right
  /\ task[<<0>>].st # "Done"
  /\ \E i \in task[<<1>>].left..task[<<1>>].right : arr[i] # input[i]

RECURSIVE Pow2(_)
Pow2(n) == IF n <= 0 THEN 1 ELSE 2 * Pow2(n - 1)

\* The tasks that took the sequential branch of line 99.
RanSequential ==
  {t \in DOMAIN task :
     \/ task[t].st = "Sequential"
     \/ /\ task[t].st = "Done" /\ ~HasChildren(t)
        /\ Sequential(task[t].left, task[t].right, task[t].depth)}

\* C24: in a call whose root task has depth budget P, the budget of every
\* task is P minus the number of forks above it and is never negative, so
\* no path of the task tree has more than P forks and at most 2^P tasks
\* run the sequential algorithm.
DepthBudget ==
  /\ \A t \in DOMAIN task :
       /\ task[t].depth = max_depth - Len(t)
       /\ task[t].depth >= 0
       /\ Len(t) <= max_depth
       /\ task[Root].depth = nthreads
  /\ Cardinality(RanSequential) <= Pow2(max_depth)

\* With P = 2 the four tasks two forks below the root have spent the budget
\* and ran the sequential algorithm.
DepthBudgetWitness ==
  /\ max_depth = 2
  /\ Cardinality(RanSequential) = 4
  /\ \A t \in RanSequential : Len(t) = 2 /\ task[t].depth = 0 /\ task[t].st = "Done"

(***************************************************************************)
(* Properties of parallel_reduce.                                          *)
(***************************************************************************)
\* The sequential left fold of a[i..] from acc, with the loop bodies of the
\* test (test_parallel_algorithms.c:28-34).
RECURSIVE SeqFold(_, _, _, _)
SeqFold(o, acc, a, i) ==
  IF i \in DOMAIN a THEN SeqFold(o, Body(o, acc, a[i]), a, i + 1) ELSE acc

\* C2: for the four operators parallel_reduce returns the sequential left
\* fold of the array from the initial value, however the iterations are
\* shared between the threads and in whatever order the partial results
\* are combined.
ReduceIsFold ==
  (rpc = "returned" /\ op \in ValidOps) => retval = SeqFold(op, initial, arr, 0)

\* Two threads each folded part of the array, from an initial value that is
\* not the operator's identity.
ReduceIsFoldWitness ==
  /\ rpc = "returned" /\ op \in ValidOps
  /\ team = 2 /\ size >= 2
  /\ \A w \in 1..team : priv[w] # Identity(op)
  /\ initial # Identity(op)

\* C8: a call with an operator code outside 0..3 does not return a scalar
\* to its caller as a successful call does.
InvalidOpRejected == op \notin ValidOps => rpc # "returned"

ReduceEmpty ==
  (rpc = "returned" /\ op \in ValidOps /\ size = 0) => retval = initial

\* An empty array reduced by two threads, each combining its private copy.
ReduceEmptyWitness ==
  /\ rpc = "returned" /\ op \in ValidOps /\ size = 0
  /\ team = 2 /\ joined = {1, 2}
  /\ initial # Identity(op)

\* The sum of the array a.
RECURSIVE SumFrom(_, _)
SumFrom(a, i) == IF i \in DOMAIN a THEN a[i] + SumFrom(a, i + 1) ELSE 0

\* The largest of x and the elements of a.
RECURSIVE MaxFrom(_, _, _)
MaxFrom(x, a, i) ==
  IF i \in DOMAIN a THEN MaxFrom(IF a[i] > x THEN a[i] ELSE x, a, i + 1) ELSE x

\* C21: the caller's initial value enters the result exactly once whatever
\* the number of threads: every private copy starts from the operator's
\* identity, the sum returns initial + sum(arr), the maximum returns
\* max(initial, max(arr)), and every operator returns the initial value
\* combined once with the fold of the array from the identity.
InitialOnce ==
  /\ (rpc = "loop" /\ todo = 0..(size - 1)) =>
       \A w \in 1..team : priv[w] = Identity(op)
  /\ (rpc = "returned" /\ op \in ValidOps) =>
       /\ retval = Combiner(op, initial, SeqFold(op, Identity(op), arr, 0))
       /\ op = 0 => retval = initial + SumFrom(arr, 0)
       /\ op = 2 => retval = MaxFrom(initial, arr, 0)

\* A sum by two threads from an initial value that is not 0.
InitialOnceWitness ==
  /\ rpc = "returned" /\ op = 0 /\ team = 2 /\ size >= 1
  /\ initial # 0 /\ joined = {1, 2}

\* The private copies of the threads of S combined into acc, one at a time.
RECURSIVE CombineAll(_, _, _, _)
CombineAll(o, acc, p, S) ==
  IF S = {} THEN acc
  ELSE LET w == CHOOSE v \in S : TRUE
       IN  CombineAll(o, Combiner(o, acc, p[w]), p, S \ {w})

\* C22: the combination of the private copies into result is serialized:
\* whatever the order in which the threads finish, result holds the initial
\* value combined with the private copy of each thread that has combined,
\* once each, and the loop ends only when every thread has combined.
CombineOnce ==
  /\ (rpc \in {"loop", "return", "returned"} /\ op \in ValidOps) =>
       result = CombineAll(op, initial, priv, joined)
  /\ (rpc \in {"return", "returned"} /\ op \in ValidOps) => joined = 1..team

\* Two threads, each with a partial result of its own, have both combined.
CombineOnceWitness ==
  /\ rpc = "return" /\ op \in ValidOps /\ team = 2 /\ joined = {1, 2}
  /\ \A w \in 1..team : priv[w] # Identity(op)
  /\ priv[1] # priv[2]

(***************************************************************************)
(* Properties of parallel_transform.                                       *)
(***************************************************************************)
\* C3: after parallel_transform returns, out[i] = func(in[i]) for every i.
TransformEveryIndex ==
  tpc = "returned" => \A i \in 0..(size - 1) : out[i] = func[in0[i]]

\* Two threads transformed an array with a function that changes it.
TransformEveryIndexWitness ==
  /\ tpc = "returned" /\ team = 2 /\ size >= 2
  /\ \E i \in 0..(size - 1) : func[in0[i]] # in0[i]

\* C26: parallel_transform stores nothing through in and stores only to
\* the slots 0..size-1 of out, once each: a slot already written holds func
\* of the original input, a slot not yet written holds what it held at the
\* call, the input array is unchanged when out is another array, and when
\* out is the input array itself the call still leaves func of the original
\* in[i] in every slot, under every interleaving.
TransformFrame ==
  /\ DOMAIN out = 0..(size - 1) \/ tpc = "idle"
  /\ \A i \in DOMAIN writes :
       /\ writes[i] <= 1
       /\ writes[i] = 1 => out[i] = func[in0[i]]
       /\ writes[i] = 0 => out[i] = (IF alias THEN in0[i] ELSE Uninit)
       /\ tpc = "returned" => writes[i] = 1
  /\ ~alias => in = in0
  /\ alias => in = out

\* An in-place call by two threads with a function for which applying it
\* twice differs from applying it once.
TransformFrameWitness ==
  /\ tpc = "returned" /\ alias /\ team = 2 /\ size >= 2
  /\ \A i \in 0..(size - 1) : func[func[in0[i]]] # func[in0[i]]

(***************************************************************************)
(* Properties of the file pipeline.                                        *)
(***************************************************************************)
\* The blocks that the completed stages of file f have allocated.
Allocated(f) == {Block(f, k) : k \in {j \in 1..3 : stg[f][j] = "done"}}

\* C27: for each file the stages run in the order read, process, report,
\* save, a stage starting only after the previous stage of the same file
\* has completed; nothing is freed before the save stage has completed;
\* the stages of different files are not ordered with each other.
PipelineOrder ==
  \A f \in 1..nfiles :
    /\ \A k \in 2..4 : stg[f][k] \in {"running", "done"} => stg[f][k - 1] = "done"
    /\ fpc[f] \in {"free", "done"} => \A k \in Stages : stg[f][k] = "done"
    /\ fpc[f] # "done" => Allocated(f) \subseteq DOMAIN heap

\* With dependent tasks and two threads, the file created second has
\* completed its four stages while the first file is still being read.
PipelineOrderWitness ==
  /\ impl \in {"example", "tasks_no_nested"} /\ nfiles >= 2 /\ team = 2
  /\ stg[1][1] = "running"
  /\ \A k \in Stages : stg[2][k] = "done"

\* The sum of Factor * (i % Modulus) for lo <= i <= hi.
RECURSIVE SumTerms(_, _)
SumTerms(lo, hi) ==
  IF lo > hi THEN 0
  ELSE IF lo = hi THEN Factor * (lo % Modulus)
  ELSE LET m == lo + ((hi - lo) \div 2)
       IN  SumTerms(lo, m) + SumTerms(m + 1, hi)

\* C28: the three implementations of the benchmark agree on data: in each
\* the process stage finds the data_size and the parsed_data that the read
\* stage of the same file wrote, and the report stage writes file_id * 100
\* items and the sum of 2 * (i mod 10) over them.
ImplementationsAgree ==
  \A f \in 1..nfiles :
    /\ stg[f][2] = "done" =>
         seen[f] = [data_size |-> f * ItemsPerId, parsed_data |-> Block(f, 1)]
    /\ stg[f][3] = "done" =>
         reported[f] = [items |-> f * ItemsPerId,
                        sum   |-> SumTerms(0, (f * ItemsPerId) - 1)]

\* What holds of the three implementations: the two whose stages share the
\* variables of the call agree on data, and process_file_tasks_no_nested
\* processes and reports no item at all.
SharingDecidesData ==
  \A f \in 1..nfiles :
    stg[f][3] = "done" =>
      IF PrivateCopies
      THEN /\ seen[f] = [data_size |-> 0, parsed_data |-> NullPtr]
           /\ reported[f] = [items |-> 0, sum |-> 0]
      ELSE /\ seen[f] = [data_size |-> f * ItemsPerId, parsed_data |-> Block(f, 1)]
           /\ reported[f] = [items |-> f * ItemsPerId,
                             sum   |-> SumTerms(0, (f * ItemsPerId) - 1)]

(***************************************************************************)
(* Properties of the data-sharing example.                                 *)
(***************************************************************************)
\* What the clauses that OpenMP defines guarantee: one thread at a time is
\* inside the critical block, no increment of shared_var is lost, and the
\* originals of private_result and firstprivate_var are never written.
CriticalCounts ==
  /\ Cardinality({w \in DOMAIN at : at[w] = "critical"}) <= 1
  /\ dpc # "idle" => (private_result = 0 /\ firstprivate_var = FirstInit)
  /\ dpc = "region" =>
       shared_var = Cardinality({w \in 1..team : at[w] \notin {"start", "critical"}})
  /\ dpc = "after" => shared_var = team

\* C29: with a team of 4 threads, after the parallel region shared_var is
\* 4, firstprivate_var and private_result hold their values of before the
\* region, and reduction_sum is 5050.
SharingOutcome ==
  (dpc = "after" /\ team = 4) =>
    /\ shared_var = 4
    /\ firstprivate_var = FirstInit
    /\ private_result = 0
    /\ reduction_sum = 5050

(***************************************************************************)
(* Properties of the scheduled loops.                                      *)
(***************************************************************************)
\* C12: a data-parallel loop over [0, N) runs its body exactly once for each
\* index under the static, the dynamic and the guided schedule and for
\* every number of threads, and control returns to the caller only when
\* every thread has finished its chunks and reached the barrier.
LoopExactlyOnce ==
  /\ \A i \in DOMAIN execs : execs[i] <= 1
  /\ lpc = "returned" =>
       /\ \A i \in 0..(size - 1) : execs[i] = 1
       /\ \A w \in 1..team : w \in arrived /\ cur[w].lo >= cur[w].hi /\ NextStart(w) >= size

\* Two threads shared a guided loop, each taking chunks of different sizes.
LoopExactlyOnceWitness ==
  /\ lpc = "returned" /\ sched = "guided" /\ team = 2 /\ size = MaxIter
  /\ \A w \in 1..team : psum[w] > 0

====
